---- MODULE Spec2Model ----
(***************************************************************************)
(* A model of the function Logger of basvanbeek/telemetry                  *)
(* (function/logger.go).                                                   *)
(*                                                                         *)
(* The Go heap is modelled explicitly: Logger objects, the int32 cells the *)
(* level pointers refer to, and the backing arrays of the args slices.     *)
(* Every method of the Logger is an operator from a heap to a heap (named  *)
(* as in the source), and every action of the specification is one call of *)
(* one method by a caller.                                                 *)
(***************************************************************************)
EXTENDS Integers, Sequences, FiniteSets, TLC

VARIABLES
    loggers,   \* heap of Logger objects: loggers[p] is the struct behind pointer p
    cells,     \* heap of int32 cells: cells[c] is the value behind a *int32
    arrays,    \* heap of backing arrays of []interface{} slices
    derived,   \* history: derived[p] = how logger p was obtained, and from which receiver
    last,      \* history: the most recent call (method, receiver, argument, result)
    events,    \* what the most recent call did to its collaborators (metric, sink), in order
    threads,   \* goroutines calling concurrently: the call each is in, and where in it
    counts     \* history of the concurrent calls: per logger, the caller-skip it started
               \* with and the CSIncrease and CSDecrease calls completed on it

vars == <<loggers, cells, arrays, derived, last, events, threads, counts>>

----------------------------------------------------------------------------
(* Bounds of the model.                                                    *)

\* Logger objects allocated at most, when every method may be called.
MaxLoggers == 2
\* Logger objects allocated at most, when only the derivations and SetLevel are called.
MaxFamily == 3
\* Logger objects allocated at most, when only the derivations are called.
MaxAttach == 4
\* Goroutines calling concurrently, and calls each of them makes at most.
MaxThreads == 2
MaxCalls == 2
\* Longest key/value argument list passed to With.
MaxKV == 3
\* How far a requested level ranges beyond LevelNone and LevelDebug.
LevelMargin == 1
\* How far the caller-skip counters are moved away from zero, all loggers together.
MaxSkip == 1

----------------------------------------------------------------------------
(* telemetry.Level and its recognised values.                              *)

LevelNone == 0
LevelError == 1
LevelInfo == 5
LevelDebug == 10

\* The values a caller passes to SetLevel: every boundary, its neighbours, and
\* values below LevelNone and above LevelDebug.
LevelInputs == (LevelNone - LevelMargin)..(LevelDebug + LevelMargin)

----------------------------------------------------------------------------
(* interface{} values.  A value is <<dynamic type, printed value>>, so that *)
(* the type assertion keyValues[i].(string) is a test of the first part.   *)

Str(s) == <<"string", s>>
IsString(v) == v[1] = "string"

Missing == Str("(MISSING)")

\* The values callers pass as keys and values: one string and one non-string.
Elems == {Str("k"), <<"int", "7">>}

RECURSIVE SeqsUpTo(_, _)
SeqsUpTo(S, n) ==
    IF n = 0 THEN {<<>>}
    ELSE LET shorter == SeqsUpTo(S, n - 1)
         IN shorter \cup {Append(s, x) : s \in {t \in shorter : Len(t) = n - 1}, x \in S}

\* Argument lists of With.
KVInputs == SeqsUpTo(Elems, MaxKV)

NilErr == "nil"
Errs == {NilErr, "someErr"}

\* Arguments of the logging methods, <<msg, keyValues>>; keyValues is not
\* validated by the Logger: empty, and odd-length with a non-string key.
LogInputs == {<<"started", <<>>>>, <<"failed", <<<<"int", "7">>>>>>}

----------------------------------------------------------------------------
(* Collaborators: contexts, metrics, sinks.                                *)

Background == "background"
Contexts == {"ctx1"}

\* telemetry.KeyValuesFromContext: the pairs a context carries.
KeyValuesFromContext(ctx) ==
    IF ctx = Background THEN <<>> ELSE <<Str("ck"), Str("cv")>>

NilMetric == "nil"
Metrics == {"m1", "m2"}

NilEmit == "nil"
EmitFuncs == {"emitA"}

----------------------------------------------------------------------------
(* Slices.  A slice is [arr, len]: a backing array of the heap (0: none,   *)
(* the nil slice) and a length; its capacity is the array's length.        *)

NilSlice == [arr |-> 0, len |-> 0]
Nil == <<"nil", "nil">>

\* The sequence <<F(1), ..., F(n)>>, built as a sequence: arrays are updated
\* in place and compared with tuples.
RECURSIVE Tabulate(_, _)
Tabulate(F(_), n) == IF n = 0 THEN <<>> ELSE Append(Tabulate(F, n - 1), F(n))

\* n zero values.
Zeroed(n) == Tabulate(LAMBDA i : Nil, n)

SliceCap(h, s) == IF s.arr = 0 THEN 0 ELSE Len(h.arrays[s.arr])
SliceElems(h, s) == IF s.arr = 0 THEN <<>> ELSE SubSeq(h.arrays[s.arr], 1, s.len)

\* make([]interface{}, n): a fresh zeroed array of n elements.
MakeSlice(h, n) ==
    [heap |-> [h EXCEPT !.arrays = Append(@, Zeroed(n))],
     slice |-> [arr |-> Len(h.arrays) + 1, len |-> n]]

\* copy(dst, src) with len(dst) = len(src).
CopySlice(h, dst, src) ==
    IF dst.arr = 0 THEN h
    ELSE [h EXCEPT !.arrays[dst.arr] =
             SliceElems(h, src) \o SubSeq(@, src.len + 1, Len(@))]

\* The capacity append grows to (runtime growslice, below the size-class rounding).
GrowCap(oldCap, newLen) ==
    IF newLen > 2 * oldCap THEN newLen ELSE 2 * oldCap

\* append(s, k, v): in place when the capacity allows, else into a fresh array.
AppendPair(h, s, k, v) ==
    IF s.len + 2 <= SliceCap(h, s)
    THEN [heap |-> [h EXCEPT !.arrays[s.arr] =
                       [@ EXCEPT ![s.len + 1] = k, ![s.len + 2] = v]],
          slice |-> [s EXCEPT !.len = @ + 2]]
    ELSE LET n == GrowCap(SliceCap(h, s), s.len + 2)
             new == SliceElems(h, s) \o <<k, v>> \o Zeroed(n - (s.len + 2))
         IN [heap |-> [h EXCEPT !.arrays = Append(@, new)],
             slice |-> [arr |-> Len(h.arrays) + 1, len |-> s.len + 2]]

----------------------------------------------------------------------------
(* The heap seen by the methods.                                           *)

Heap == [loggers |-> loggers, cells |-> cells, arrays |-> arrays]

\* int32 arithmetic: atomic.AddInt32 wraps around at the ends of the range.
MaxInt32 == 2147483647
MinInt32 == (0 - MaxInt32) - 1

AddInt32(x, delta) ==
    IF delta > 0 /\ x > MaxInt32 - delta THEN MinInt32 + (delta - 1) - (MaxInt32 - x)
    ELSE IF delta < 0 /\ x < MinInt32 - delta THEN MaxInt32 + (delta + 1) + (x - MinInt32)
    ELSE x + delta

\* What a method call yields: the heap after it, the value it returns (0 for
\* a method without result) and the collaborator calls it made, in order.
Result(h, ret, ev) == [heap |-> h, ret |-> ret, events |-> ev]

----------------------------------------------------------------------------
(* function/logger.go                                                      *)

\* Mutant of newLoggerWithValues: the new Logger gets the slice it was passed,
\* not a copy of it.
newLoggerWithValuesAliased(h, ctx, m, l, f, args, cs) ==
    LET newLogger == [ctx |-> ctx, args |-> args, metric |-> m, level |-> l,
                      emitFunc |-> f, callerSkip |-> cs]
    IN Result([h EXCEPT !.loggers = Append(@, newLogger)], Len(h.loggers) + 1, <<>>)

\* newLoggerWithValues: a new Logger whose args is a fresh copy of args.
newLoggerWithValues(h, ctx, m, l, f, args, cs) ==
    LET mk == MakeSlice(h, args.len)
        h1 == CopySlice(mk.heap, mk.slice, args)
        newLogger == [ctx |-> ctx, args |-> mk.slice, metric |-> m, level |-> l,
                      emitFunc |-> f, callerSkip |-> cs]
    IN Result([h1 EXCEPT !.loggers = Append(@, newLogger)], Len(h.loggers) + 1, <<>>)

\* NewLogger: level is a fresh cell holding LevelInfo; args is the nil slice.
\* (int32(callerSkip) keeps every depth the model passes: they are int32 values.)
NewLogger(h, emitFunc, callerSkip) ==
    LET h1 == [h EXCEPT !.cells = Append(@, LevelInfo)]
        newLogger == [ctx |-> Background, args |-> NilSlice, metric |-> NilMetric,
                      level |-> Len(h1.cells), emitFunc |-> emitFunc,
                      callerSkip |-> callerSkip]
    IN Result([h1 EXCEPT !.loggers = Append(@, newLogger)], Len(h.loggers) + 1, <<>>)

\* Mutant of CSIncrease: the counter is one per family, like the level: every
\* logger that shares l's level cell is moved with l.
CSIncreaseShared(h, l) ==
    LET Moved(p) == IF h.loggers[p].level = h.loggers[l].level
                    THEN [h.loggers[p] EXCEPT !.callerSkip = AddInt32(@, 1)]
                    ELSE h.loggers[p]
    IN Result([h EXCEPT !.loggers = Tabulate(Moved, Len(h.loggers))], 0, <<>>)

CSIncrease(h, l) ==
    Result([h EXCEPT !.loggers[l].callerSkip = AddInt32(@, 1)], 0, <<>>)

CSDecrease(h, l) ==
    Result([h EXCEPT !.loggers[l].callerSkip = AddInt32(@, 0 - 1)], 0, <<>>)

\* Level: atomic.LoadInt32(l.level).
Level(h, l) == h.cells[h.loggers[l].level]

\* Mutant of SetLevelSwitch: the recognised level at or above the requested one.
SetLevelSwitchCeiling(level) ==
    IF level <= LevelNone THEN LevelNone
    ELSE IF level <= LevelError THEN LevelError
    ELSE IF level <= LevelInfo THEN LevelInfo
    ELSE LevelDebug

\* Mutant of SetLevelSwitch: the comparisons include the boundary.
SetLevelSwitchInclusive(level) ==
    IF level <= LevelError THEN LevelNone
    ELSE IF level <= LevelInfo THEN LevelError
    ELSE IF level <= LevelDebug THEN LevelInfo
    ELSE LevelDebug

\* The switch of SetLevel: the recognised level of the range the requested
\* one falls in (everything below LevelError, negative values too, is LevelNone).
SetLevelSwitch(level) ==
    IF level < LevelError THEN LevelNone
    ELSE IF level < LevelInfo THEN LevelError
    ELSE IF level < LevelDebug THEN LevelInfo
    ELSE LevelDebug

\* Mutant of SetLevel: the requested level is stored as it is.
SetLevelUnquantized(h, l, level) ==
    Result([h EXCEPT !.cells[h.loggers[l].level] = level], 0, <<>>)

\* SetLevel: atomic.StoreInt32(l.level, int32(level)) of the switched level.
SetLevel(h, l, level) ==
    Result([h EXCEPT !.cells[h.loggers[l].level] = SetLevelSwitch(level)], 0, <<>>)
enabledIgnoringSink(h, l, level) ==
    level <= Level(h, l)

\* Mutant of enabled: a call at the threshold itself is rejected.
enabledBelowThreshold(h, l, level) ==
    h.loggers[l].emitFunc # NilEmit /\ level < Level(h, l)

enabled(h, l, level) ==
    h.loggers[l].emitFunc # NilEmit /\ level <= Level(h, l)

\* l.metric.RecordContext(l.ctx, 1)
RecordContext(h, l) ==
    [kind |-> "record", metric |-> h.loggers[l].metric, ctx |-> h.loggers[l].ctx, value |-> 1]

\* Mutant of emit: the call-site arguments are merged into the logger's pairs.
emitMerged(h, l, level, msg, err, keyValues) ==
    [kind |-> "emit", emitFunc |-> h.loggers[l].emitFunc, level |-> level, msg |-> msg,
     err |-> err,
     values |-> [FromContext |-> KeyValuesFromContext(h.loggers[l].ctx),
                 FromLogger |-> SliceElems(h, h.loggers[l].args) \o keyValues,
                 FromMethod |-> <<>>],
     callerSkip |-> h.loggers[l].callerSkip]

\* emit: one call of l.emitFunc.
emit(h, l, level, msg, err, keyValues) ==
    [kind |-> "emit", emitFunc |-> h.loggers[l].emitFunc, level |-> level, msg |-> msg,
     err |-> err,
     values |-> [FromContext |-> KeyValuesFromContext(h.loggers[l].ctx),
                 FromLogger |-> SliceElems(h, h.loggers[l].args),
                 FromMethod |-> keyValues],
     callerSkip |-> h.loggers[l].callerSkip]

\* Mutant of Debug: the metric is recorded first, as Info and Error do.
DebugRecordingMetric(h, l, msg, keyValues) ==
    LET rec == IF h.loggers[l].metric # NilMetric THEN <<RecordContext(h, l)>> ELSE <<>>
    IN IF ~enabled(h, l, LevelDebug) THEN Result(h, 0, rec)
       ELSE Result(h, 0, rec \o <<emit(h, l, LevelDebug, msg, NilErr, keyValues)>>)

Debug(h, l, msg, keyValues) ==
    IF ~enabled(h, l, LevelDebug) THEN Result(h, 0, <<>>)
    ELSE Result(h, 0, <<emit(h, l, LevelDebug, msg, NilErr, keyValues)>>)

\* Mutant of Info: the caller-skip counter is raised for the emission and left
\* raised.
InfoRaisingSkip(h, l, msg, keyValues) ==
    LET rec == IF h.loggers[l].metric # NilMetric THEN <<RecordContext(h, l)>> ELSE <<>>
    IN IF ~enabled(h, l, LevelInfo) THEN Result(h, 0, rec)
       ELSE LET h1 == [h EXCEPT !.loggers[l].callerSkip = AddInt32(@, 1)]
            IN Result(h1, 0, rec \o <<emit(h1, l, LevelInfo, msg, NilErr, keyValues)>>)

\* Mutant of Info: the metric is recorded after the level check.
InfoRecordingWhenEnabled(h, l, msg, keyValues) ==
    LET rec == IF h.loggers[l].metric # NilMetric THEN <<RecordContext(h, l)>> ELSE <<>>
    IN IF ~enabled(h, l, LevelInfo) THEN Result(h, 0, <<>>)
       ELSE Result(h, 0, rec \o <<emit(h, l, LevelInfo, msg, NilErr, keyValues)>>)

Info(h, l, msg, keyValues) ==
    LET rec == IF h.loggers[l].metric # NilMetric THEN <<RecordContext(h, l)>> ELSE <<>>
    IN IF ~enabled(h, l, LevelInfo) THEN Result(h, 0, rec)
       ELSE Result(h, 0, rec \o <<emit(h, l, LevelInfo, msg, NilErr, keyValues)>>)

Error(h, l, msg, err, keyValues) ==
    LET rec == IF h.loggers[l].metric # NilMetric THEN <<RecordContext(h, l)>> ELSE <<>>
    IN IF ~enabled(h, l, LevelError) THEN Result(h, 0, rec)
       ELSE Result(h, 0, rec \o <<emit(h, l, LevelError, msg, err, keyValues)>>)

\* Mutant of WithPad: the missing value is nil, not the sentinel.
WithPadNil(keyValues) ==
    IF Len(keyValues) % 2 # 0 THEN Append(keyValues, Nil) ELSE keyValues

\* With, lines 167-169: an odd argument list gets the sentinel appended.
WithPad(keyValues) ==
    IF Len(keyValues) % 2 # 0 THEN Append(keyValues, Missing) ELSE keyValues

\* Mutant of WithLoop: the key's type is not asserted, every pair is appended.
RECURSIVE WithLoopUnfiltered(_, _, _, _)
WithLoopUnfiltered(h, newLogger, keyValues, i) ==
    IF i > Len(keyValues) THEN h
    ELSE LET ap == AppendPair(h, h.loggers[newLogger].args,
                              keyValues[i], keyValues[i + 1])
         IN WithLoopUnfiltered([ap.heap EXCEPT !.loggers[newLogger].args = ap.slice],
                               newLogger, keyValues, i + 2)

\* With, lines 175-179: the loop from index i (0-based in the source, 1-based
\* here) appending to newLogger.args every pair whose key is a string.
RECURSIVE WithLoop(_, _, _, _)
WithLoop(h, newLogger, keyValues, i) ==
    IF i > Len(keyValues) THEN h
    ELSE IF IsString(keyValues[i])
         THEN LET ap == AppendPair(h, h.loggers[newLogger].args,
                                   keyValues[i], keyValues[i + 1])
              IN WithLoop([ap.heap EXCEPT !.loggers[newLogger].args = ap.slice],
                          newLogger, keyValues, i + 2)
         ELSE WithLoop(h, newLogger, keyValues, i + 2)

\* Mutant of With: no short cut for an empty argument list.
WithAlwaysNew(h, l, keyValues) ==
    LET kv == WithPad(keyValues)
        r == h.loggers[l]
        nl == newLoggerWithValues(h, r.ctx, r.metric, r.level, r.emitFunc,
                                  r.args, r.callerSkip)
    IN Result(WithLoop(nl.heap, nl.ret, kv, 1), nl.ret, <<>>)

With(h, l, keyValues) ==
    IF Len(keyValues) = 0 THEN Result(h, l, <<>>)
    ELSE LET kv == WithPad(keyValues)
             r == h.loggers[l]
             nl == newLoggerWithValues(h, r.ctx, r.metric, r.level, r.emitFunc,
                                       r.args, r.callerSkip)
         IN Result(WithLoop(nl.heap, nl.ret, kv, 1), nl.ret, <<>>)

\* Mutant of Context: the level is dereferenced into a new cell, as Clone does.
ContextDereferenced(h, l, ctx) ==
    LET r == h.loggers[l]
        h1 == [h EXCEPT !.cells = Append(@, h.cells[r.level])]
    IN newLoggerWithValues(h1, ctx, r.metric, Len(h1.cells), r.emitFunc,
                           r.args, r.callerSkip)

Context(h, l, ctx) ==
    LET r == h.loggers[l]
    IN newLoggerWithValues(h, ctx, r.metric, r.level, r.emitFunc, r.args, r.callerSkip)
\* Mutant of Metric: the metric is substituted in the receiver as well.
MetricSubstitutingReceiver(h, l, m) ==
    LET r == h.loggers[l]
        h1 == [h EXCEPT !.loggers[l].metric = m]
    IN newLoggerWithValues(h1, r.ctx, m, r.level, r.emitFunc, r.args, r.callerSkip)

Metric(h, l, m) ==
    LET r == h.loggers[l]
    IN newLoggerWithValues(h, r.ctx, m, r.level, r.emitFunc, r.args, r.callerSkip)

\* Mutant of Clone: the level pointer is passed on, as With does.
CloneSharingLevel(h, l) ==
    LET r == h.loggers[l]
    IN newLoggerWithValues(h, r.ctx, r.metric, r.level, r.emitFunc, r.args, r.callerSkip)

\* Clone: lvl := *l.level, and the new Logger points at lvl.
Clone(h, l) ==
    LET r == h.loggers[l]
        h1 == [h EXCEPT !.cells = Append(@, h.cells[r.level])]
    IN newLoggerWithValues(h1, r.ctx, r.metric, Len(h1.cells), r.emitFunc,
                           r.args, r.callerSkip)

----------------------------------------------------------------------------
(* The specification: callers holding Logger pointers call its methods one *)
(* at a time.                                                              *)

Ptrs == 1..Len(loggers)

\* The garbage collector: a backing array no Logger refers to is gone, and the
\* arrays left are numbered in the order they were allocated.
Collect(h) ==
    LET used == {a \in 1..Len(h.arrays) :
                    \E l \in 1..Len(h.loggers) : h.loggers[l].args.arr = a}
        Rank(a) == Cardinality({b \in used : b <= a})
        At(i) == CHOOSE a \in used : Rank(a) = i
        Kept(i) == h.arrays[At(i)]
        Renumbered(l) == [h.loggers[l] EXCEPT !.args.arr = IF @ = 0 THEN 0 ELSE Rank(@)]
    IN [h EXCEPT !.arrays = Tabulate(Kept, Cardinality(used)),
                 !.loggers = Tabulate(Renumbered, Len(h.loggers))]

\* What a call leaves in the state: the heap it returns (collected, when the
\* call allocated arrays) and the history of the call.
Apply(res, op, recv, arg, how) ==
    /\ LET h == IF Len(res.heap.arrays) = Len(arrays) THEN res.heap
                ELSE Collect(res.heap)
       IN /\ loggers' = h.loggers
          /\ cells' = h.cells
          /\ arrays' = h.arrays
    /\ events' = res.events
    /\ last' = [op |-> op, recv |-> recv, arg |-> arg, ret |-> res.ret]
    /\ derived' = IF Len(res.heap.loggers) > Len(loggers)
                  THEN Append(derived, [how |-> how, from |-> recv])
                  ELSE derived
    /\ UNCHANGED <<threads, counts>>

\* A goroutine that is in no call.
IdleThread ==
    [op |-> "none", pc |-> "done", recv |-> 0, arg |-> <<>>, tmp |-> 0,
     trace |-> <<>>, calls |-> 0, seen |-> 0]

EmptyHeap == [loggers |-> <<>>, cells |-> <<>>, arrays |-> <<>>]

\* The caller-skip depths NewLogger is called with.
SkipInputs == {0}

Init ==
    \E f \in EmitFuncs \cup {NilEmit}, cs \in SkipInputs :
        LET res == NewLogger(EmptyHeap, f, cs)
        IN /\ loggers = res.heap.loggers
           /\ cells = res.heap.cells
           /\ arrays = res.heap.arrays
           /\ events = <<>>
           /\ last = [op |-> "NewLogger", recv |-> 0, arg |-> <<f, cs>>, ret |-> res.ret]
           /\ derived = <<[how |-> "NewLogger", from |-> 0]>>
           /\ threads = Tabulate(LAMBDA t : IdleThread, MaxThreads)
           /\ counts = <<[initial |-> cs, incs |-> 0, decs |-> 0]>>

CanAllocate(max) == Len(loggers) < max

Abs(x) == IF x < 0 THEN 0 - x ELSE x

RECURSIVE SkipDistance(_)
SkipDistance(n) ==
    IF n = 0 THEN 0 ELSE Abs(loggers[n].callerSkip) + SkipDistance(n - 1)

\* A counter is moved away from zero only while the bound allows.
MayMove(l, delta) ==
    \/ Abs(loggers[l].callerSkip + delta) < Abs(loggers[l].callerSkip)
    \/ SkipDistance(Len(loggers)) < MaxSkip

CallCSIncrease ==
    \E l \in Ptrs :
        /\ MayMove(l, 1)
        /\ Apply(CSIncrease(Heap, l), "CSIncrease", l, <<>>, "")

CallCSDecrease ==
    \E l \in Ptrs :
        /\ MayMove(l, 0 - 1)
        /\ Apply(CSDecrease(Heap, l), "CSDecrease", l, <<>>, "")

CallSetLevel ==
    \E l \in Ptrs, level \in LevelInputs :
        Apply(SetLevel(Heap, l, level), "SetLevel", l, level, "")

CallDebug ==
    \E l \in Ptrs, in \in LogInputs :
        Apply(Debug(Heap, l, in[1], in[2]), "Debug", l, <<in[1], NilErr, in[2]>>, "")

CallInfo ==
    \E l \in Ptrs, in \in LogInputs :
        Apply(Info(Heap, l, in[1], in[2]), "Info", l, <<in[1], NilErr, in[2]>>, "")

CallError ==
    \E l \in Ptrs, in \in LogInputs, err \in Errs :
        Apply(Error(Heap, l, in[1], err, in[2]), "Error", l, <<in[1], err, in[2]>>, "")

CallWith(max) ==
    \E l \in Ptrs, kv \in KVInputs :
        /\ Len(kv) > 0 => CanAllocate(max)
        /\ Apply(With(Heap, l, kv), "With", l, kv, "With")

CallContext(max) ==
    /\ CanAllocate(max)
    /\ \E l \in Ptrs, ctx \in Contexts :
           Apply(Context(Heap, l, ctx), "Context", l, ctx, "Context")

CallMetric(max) ==
    /\ CanAllocate(max)
    /\ \E l \in Ptrs, m \in Metrics :
           Apply(Metric(Heap, l, m), "Metric", l, m, "Metric")

CallClone(max) ==
    /\ CanAllocate(max)
    /\ \E l \in Ptrs :
           Apply(Clone(Heap, l), "Clone", l, <<>>, "Clone")

Next ==
    \/ CallCSIncrease
    \/ CallCSDecrease
    \/ CallSetLevel
    \/ CallDebug
    \/ CallInfo
    \/ CallError
    \/ CallWith(MaxLoggers)
    \/ CallContext(MaxLoggers)
    \/ CallMetric(MaxLoggers)
    \/ CallClone(MaxLoggers)

\* Every method, on at most MaxLoggers loggers.
Spec == Init /\ [][Next]_vars

NextFamily ==
    \/ CallSetLevel
    \/ CallWith(MaxFamily)
    \/ CallContext(MaxFamily)
    \/ CallMetric(MaxFamily)
    \/ CallClone(MaxFamily)

\* The derivations and SetLevel, on at most MaxFamily loggers: chains of two
\* derivations, and siblings derived from one logger.
SpecFamily == Init /\ [][NextFamily]_vars

NextLog ==
    \/ CallSetLevel
    \/ CallDebug
    \/ CallInfo
    \/ CallError
    \/ CallWith(MaxFamily)
    \/ CallContext(MaxFamily)
    \/ CallMetric(MaxFamily)
    \/ CallClone(MaxFamily)

\* Every method but the caller-skip adjustments, on at most MaxFamily loggers:
\* log calls on loggers two derivations away from the constructed one.
SpecLog == Init /\ [][NextLog]_vars

CallNewLogger(max) ==
    /\ CanAllocate(max)
    /\ \E f \in EmitFuncs \cup {NilEmit}, cs \in SkipInputs :
           Apply(NewLogger(Heap, f, cs), "NewLogger", 0, <<f, cs>>, "NewLogger")

NextConstruct ==
    \/ CallNewLogger(MaxFamily)
    \/ CallSetLevel
    \/ CallWith(MaxFamily)
    \/ CallContext(MaxFamily)
    \/ CallMetric(MaxFamily)
    \/ CallClone(MaxFamily)

\* NewLogger called again and again: several constructed loggers, each with
\* the loggers derived from it.
SpecConstruct == Init /\ [][NextConstruct]_vars

----------------------------------------------------------------------------
(* Goroutines calling the methods concurrently. A call is a sequence of    *)
(* steps, one per access to memory that other goroutines can write (the    *)
(* level cell, the callerSkip field) and one per collaborator call; pc     *)
(* names the step the goroutine is about to take.                          *)

Threads == 1..MaxThreads

Step(h, th) == [heap |-> h, thread |-> th]

Done(th) == [th EXCEPT !.pc = "done", !.calls = @ + 1]

\* Mutant of CSIncreaseStep: the counter is loaded in one step and stored,
\* raised by one, in the next.
CSIncreaseStepLoadStore(h, th) ==
    IF th.pc = "adjust"
    THEN Step(h, [th EXCEPT !.tmp = h.loggers[th.recv].callerSkip, !.pc = "adjustStore"])
    ELSE Step([h EXCEPT !.loggers[th.recv].callerSkip = AddInt32(th.tmp, 1)], Done(th))

\* CSIncrease / CSDecrease: atomic.AddInt32 is one step.
CSIncreaseStep(h, th) == Step(CSIncrease(h, th.recv).heap, Done(th))
CSDecreaseStep(h, th) == Step(CSDecrease(h, th.recv).heap, Done(th))

\* SetLevel: the switch works on the argument; atomic.StoreInt32 is one step.
SetLevelStep(h, th) == Step(SetLevel(h, th.recv, th.arg).heap, Done(th))

\* emit, line 136: the arguments of l.emitFunc are evaluated, int(l.callerSkip)
\* among them, a plain read; then the sink is called.
emitStep(h, th, level) ==
    IF th.pc = "skip"
    THEN Step(h, [th EXCEPT !.tmp = h.loggers[th.recv].callerSkip, !.pc = "sink"])
    ELSE LET e == emit(h, th.recv, level, th.arg[1], th.arg[2], th.arg[3])
         IN Step(h, Done([th EXCEPT !.trace = Append(@, [e EXCEPT !.callerSkip = th.tmp])]))

\* The enabled test of a logging method: atomic.LoadInt32 of the level is one step.
gateStep(h, th, level) ==
    IF enabled(h, th.recv, level) THEN Step(h, [th EXCEPT !.pc = "skip"])
    ELSE Step(h, Done(th))

\* The metric record of Info and Error.
recordStep(h, th) ==
    Step(h, [th EXCEPT !.trace = IF h.loggers[th.recv].metric # NilMetric
                                 THEN Append(@, RecordContext(h, th.recv)) ELSE @,
                       !.pc = "gate"])

DebugStep(h, th) ==
    IF th.pc = "gate" THEN gateStep(h, th, LevelDebug)
    ELSE emitStep(h, th, LevelDebug)

\* Mutant of InfoStep: the enabled test comes first, and the metric is
\* recorded at the end of the call.
InfoStepGateFirst(h, th) ==
    LET Rec(tr) == IF h.loggers[th.recv].metric # NilMetric
                   THEN Append(tr, RecordContext(h, th.recv)) ELSE tr
    IN IF th.pc = "record" THEN Step(h, [th EXCEPT !.pc = "gate"])
       ELSE IF th.pc = "gate"
            THEN IF enabled(h, th.recv, LevelInfo) THEN Step(h, [th EXCEPT !.pc = "skip"])
                 ELSE Step(h, Done([th EXCEPT !.trace = Rec(@)]))
       ELSE IF th.pc = "skip" THEN emitStep(h, th, LevelInfo)
       ELSE Step(h, [emitStep(h, th, LevelInfo).thread EXCEPT !.trace = Rec(@)])

InfoStep(h, th) ==
    IF th.pc = "record" THEN recordStep(h, th)
    ELSE IF th.pc = "gate" THEN gateStep(h, th, LevelInfo)
    ELSE emitStep(h, th, LevelInfo)

ErrorStep(h, th) ==
    IF th.pc = "record" THEN recordStep(h, th)
    ELSE IF th.pc = "gate" THEN gateStep(h, th, LevelError)
    ELSE emitStep(h, th, LevelError)

\* With, Context, Metric: the fields of l are read, l.callerSkip among them (a
\* plain read), and the new Logger is built before any other goroutine has it.
WithStep(h, th) == Step(With(h, th.recv, th.arg).heap, Done(th))
ContextStep(h, th) == Step(Context(h, th.recv, th.arg).heap, Done(th))
MetricStep(h, th) == Step(Metric(h, th.recv, th.arg).heap, Done(th))

\* Clone: lvl := *l.level is a plain read of the level cell, a step of its own;
\* then the fields of l are read as by the other derivations.
CloneStep(h, th) ==
    IF th.pc = "deref"
    THEN Step(h, [th EXCEPT !.tmp = h.cells[h.loggers[th.recv].level], !.pc = "copy"])
    ELSE LET r == h.loggers[th.recv]
             h1 == [h EXCEPT !.cells = Append(@, th.tmp)]
         IN Step(newLoggerWithValues(h1, r.ctx, r.metric, Len(h1.cells), r.emitFunc,
                                     r.args, r.callerSkip).heap, Done(th))

\* The first step of each method.
FirstPc(op) ==
    CASE op \in {"CSIncrease", "CSDecrease"} -> "adjust"
      [] op = "SetLevel" -> "store"
      [] op = "Debug" -> "gate"
      [] op \in {"Info", "Error"} -> "record"
      [] op \in {"With", "Context", "Metric"} -> "copy"
      [] op = "Clone" -> "deref"

\* The calls the goroutines make.
ConcurrentCalls ==
    {<<"CSIncrease", <<>>>>, <<"CSDecrease", <<>>>>,
     <<"SetLevel", LevelNone>>, <<"SetLevel", LevelDebug>>,
     <<"Debug", <<"started", NilErr, <<>>>>>>,
     <<"Info", <<"started", NilErr, <<>>>>>>,
     <<"Error", <<"failed", "someErr", <<>>>>>>,
     <<"With", <<Str("k"), Str("k")>>>>,
     <<"Context", "ctx1">>,
     <<"Metric", "m1">>,
     <<"Clone", <<>>>>}

\* Derivation calls begun and not yet completed.
RECURSIVE Deriving(_)
Deriving(t) ==
    IF t = 0 THEN 0
    ELSE Deriving(t - 1)
         + (IF threads[t].pc # "done" /\ threads[t].op \in {"With", "Context", "Metric", "Clone"}
            THEN 1 ELSE 0)

\* What a step leaves in the state.
ApplyStep(t, res) ==
    /\ LET h == IF Len(res.heap.arrays) = Len(arrays) THEN res.heap
                ELSE Collect(res.heap)
       IN /\ loggers' = h.loggers
          /\ cells' = h.cells
          /\ arrays' = h.arrays
    /\ threads' = [threads EXCEPT ![t] = res.thread]
    /\ derived' = IF Len(res.heap.loggers) > Len(loggers)
                  THEN Append(derived, [how |-> threads[t].op, from |-> threads[t].recv])
                  ELSE derived
    /\ counts' =
          IF Len(res.heap.loggers) > Len(loggers)
          THEN Append(counts, [initial |-> res.heap.loggers[Len(res.heap.loggers)].callerSkip,
                               incs |-> 0, decs |-> 0])
          ELSE IF res.thread.pc = "done" /\ threads[t].op = "CSIncrease"
          THEN [counts EXCEPT ![threads[t].recv].incs = @ + 1]
          ELSE IF res.thread.pc = "done" /\ threads[t].op = "CSDecrease"
          THEN [counts EXCEPT ![threads[t].recv].decs = @ + 1]
          ELSE counts
    /\ UNCHANGED <<last, events>>

\* A goroutine that is in no call begins one.
Begin(t) ==
    /\ threads[t].pc = "done"
    /\ threads[t].calls < MaxCalls
    /\ \E l \in Ptrs, c \in ConcurrentCalls :
          /\ c[1] \in {"With", "Context", "Metric", "Clone"}
                => Len(loggers) + Deriving(MaxThreads) < MaxLoggers
          /\ threads' = [threads EXCEPT ![t] =
                 [@ EXCEPT !.op = c[1], !.pc = FirstPc(c[1]), !.recv = l, !.arg = c[2],
                           !.tmp = 0, !.trace = <<>>,
                           !.seen = counts[l].incs + counts[l].decs]]
    /\ UNCHANGED <<loggers, cells, arrays, derived, last, events, counts>>

InCall(t, op) == threads[t].op = op /\ threads[t].pc # "done"

StepCSIncrease(t) == InCall(t, "CSIncrease") /\ ApplyStep(t, CSIncreaseStep(Heap, threads[t]))
StepCSDecrease(t) == InCall(t, "CSDecrease") /\ ApplyStep(t, CSDecreaseStep(Heap, threads[t]))
StepSetLevel(t) == InCall(t, "SetLevel") /\ ApplyStep(t, SetLevelStep(Heap, threads[t]))
StepDebug(t) == InCall(t, "Debug") /\ ApplyStep(t, DebugStep(Heap, threads[t]))
StepInfo(t) == InCall(t, "Info") /\ ApplyStep(t, InfoStep(Heap, threads[t]))
StepError(t) == InCall(t, "Error") /\ ApplyStep(t, ErrorStep(Heap, threads[t]))
StepWith(t) == InCall(t, "With") /\ ApplyStep(t, WithStep(Heap, threads[t]))
StepContext(t) == InCall(t, "Context") /\ ApplyStep(t, ContextStep(Heap, threads[t]))
StepMetric(t) == InCall(t, "Metric") /\ ApplyStep(t, MetricStep(Heap, threads[t]))
StepClone(t) == InCall(t, "Clone") /\ ApplyStep(t, CloneStep(Heap, threads[t]))

NextConcurrent ==
    \E t \in Threads :
        \/ Begin(t)
        \/ StepCSIncrease(t)
        \/ StepCSDecrease(t)
        \/ StepSetLevel(t)
        \/ StepDebug(t)
        \/ StepInfo(t)
        \/ StepError(t)
        \/ StepWith(t)
        \/ StepContext(t)
        \/ StepMetric(t)
        \/ StepClone(t)

\* MaxThreads goroutines, each making up to MaxCalls calls on the loggers
\* there are, their steps interleaved in every order.
SpecConcurrent == Init /\ [][NextConcurrent]_vars

\* Argument lists for With that tell two calls apart, and one of five
\* arguments, after which append has left spare capacity in the backing array.
PairInputs ==
    {<<Str("k"), <<"int", "7">>>>,
     <<Str("k"), Str("k")>>,
     <<Str("k"), Str("k"), Str("k"), Str("k"), Str("k")>>}

CallWithPairs(max) ==
    /\ CanAllocate(max)
    /\ \E l \in Ptrs, kv \in PairInputs :
           Apply(With(Heap, l, kv), "With", l, kv, "With")

NextAttach ==
    \/ CallWithPairs(MaxAttach)
    \/ CallContext(MaxAttach)
    \/ CallMetric(MaxAttach)
    \/ CallClone(MaxAttach)

\* Derivations only, With with argument lists long enough for append to leave
\* spare capacity behind the stored pairs.
SpecAttach == Init /\ [][NextAttach]_vars

----------------------------------------------------------------------------
(* What the claims speak of.                                               *)

\* Level() on logger l, in the current state.
LevelOf(l) == Level(Heap, l)

\* The key/value sequence logger l stores.
ArgsOf(l) == SliceElems(Heap, loggers[l].args)

SharingDerivations == {"With", "Context", "Metric"}

\* d was obtained from l by a non-empty chain of With, Context and Metric calls.
RECURSIVE ChainFrom(_, _)
ChainFrom(l, d) ==
    /\ derived[d].how \in SharingDerivations
    /\ \/ derived[d].from = l
       \/ ChainFrom(l, derived[d].from)

----------------------------------------------------------------------------
\* C1: a logger and every logger obtained from it by a chain of With (with
\* arguments), Context or Metric calls report the same Level(), whatever
\* SetLevel calls were made through either of them.
C1_SharedLevel ==
    \A l \in Ptrs, d \in Ptrs : ChainFrom(l, d) => LevelOf(l) = LevelOf(d)

\* A SetLevel through a logger two derivations away from l has moved l's level
\* away from the default.
C1_Witness ==
    \E l \in Ptrs, d \in Ptrs :
        /\ ChainFrom(l, d)
        /\ derived[d].from # l
        /\ last.op = "SetLevel"
        /\ last.recv = d
        /\ LevelOf(l) = LevelDebug
        /\ LevelOf(d) = LevelDebug

----------------------------------------------------------------------------
\* C2: right after l2 = l.Clone() both report the same Level(); from then on a
\* SetLevel on l leaves Level() of l2 as it was, and a SetLevel on l2 leaves
\* Level() of l as it was.
C2_CloneForksLevel ==
    [][/\ (last'.op = "Clone" /\ Len(loggers') > Len(loggers))
            => Level(Heap', last'.ret) = Level(Heap', last'.recv)
       /\ \A l2 \in Ptrs :
            derived[l2].how = "Clone" =>
                LET l == derived[l2].from
                IN /\ (last'.op = "SetLevel" /\ last'.recv = l)
                        => LevelOf(l2)' = LevelOf(l2)
                   /\ (last'.op = "SetLevel" /\ last'.recv = l2)
                        => LevelOf(l)' = LevelOf(l)]_vars

\* A SetLevel on the receiver of a Clone has left the clone at another level.
C2_Witness ==
    \E l2 \in Ptrs :
        /\ derived[l2].how = "Clone"
        /\ last.op = "SetLevel"
        /\ last.recv = derived[l2].from
        /\ LevelOf(derived[l2].from) = LevelNone
        /\ LevelOf(l2) = LevelInfo

----------------------------------------------------------------------------
\* C3: after SetLevel(r), Level() is None if r < Error, Error if
\* Error <= r < Info, Info if Info <= r < Debug, Debug if r >= Debug.
C3_SetLevelQuantizes ==
    last.op = "SetLevel" =>
        LET r == last.arg
            got == LevelOf(last.recv)
        IN /\ r < LevelError => got = LevelNone
           /\ (LevelError <= r /\ r < LevelInfo) => got = LevelError
           /\ (LevelInfo <= r /\ r < LevelDebug) => got = LevelInfo
           /\ r >= LevelDebug => got = LevelDebug

\* SetLevel was called with the value just below Info, and Level() is Error.
C3_Witness ==
    /\ last.op = "SetLevel"
    /\ last.arg = LevelInfo - 1
    /\ LevelOf(last.recv) = LevelError

----------------------------------------------------------------------------
\* The collaborator calls of the most recent call, by kind.
Records == SelectSeq(events, LAMBDA e : e.kind = "record")
Emits == SelectSeq(events, LAMBDA e : e.kind = "emit")

\* The level a logging method logs at.
MethodLevel(op) ==
    CASE op = "Debug" -> LevelDebug
      [] op = "Info" -> LevelInfo
      [] op = "Error" -> LevelError

LogMethods == {"Debug", "Info", "Error"}

----------------------------------------------------------------------------
\* C4: a call of Info or Error on a logger with a metric attached records
\* that metric exactly once, whatever the threshold; with the threshold at
\* None the metric is still recorded once and the sink is not invoked.
C4_MetricOncePerCall ==
    (last.op \in {"Info", "Error"} /\ loggers[last.recv].metric # NilMetric) =>
        /\ Len(Records) = 1
        /\ Records[1].metric = loggers[last.recv].metric
        /\ Records[1].value = 1
        /\ LevelOf(last.recv) = LevelNone => Len(Emits) = 0

\* Info on a logger with a sink and a metric, at threshold None: the call made
\* one collaborator call, the metric's record.
C4_Witness ==
    /\ last.op = "Info"
    /\ loggers[last.recv].metric # NilMetric
    /\ loggers[last.recv].emitFunc # NilEmit
    /\ LevelOf(last.recv) = LevelNone
    /\ Len(events) = 1
    /\ events[1].kind = "record"

----------------------------------------------------------------------------
\* C5: a log call at level v invokes the sink exactly once if a sink is
\* configured and v <= the threshold, and not at all otherwise.
C5_SinkOnceIffEnabled ==
    last.op \in LogMethods =>
        Len(Emits) = IF /\ loggers[last.recv].emitFunc # NilEmit
                        /\ MethodLevel(last.op) <= LevelOf(last.recv)
                     THEN 1 ELSE 0

\* Error at threshold Error, the lowest threshold that lets a call through:
\* the sink was invoked once.
C5_Witness ==
    /\ last.op = "Error"
    /\ loggers[last.recv].emitFunc # NilEmit
    /\ LevelOf(last.recv) = LevelError
    /\ Len(Emits) = 1
    /\ Emits[1].level = LevelError

----------------------------------------------------------------------------
\* C6: Debug below threshold Debug never invokes the sink, and no Debug call,
\* let through or not, records the attached metric.
C6_DebugNoMetric ==
    last.op = "Debug" =>
        /\ Len(Records) = 0
        /\ LevelOf(last.recv) < LevelDebug => Len(Emits) = 0

\* Debug on a logger with a sink and a metric, at threshold Info: the call made
\* no collaborator call at all.
C6_Witness ==
    /\ last.op = "Debug"
    /\ loggers[last.recv].metric # NilMetric
    /\ loggers[last.recv].emitFunc # NilEmit
    /\ LevelOf(last.recv) = LevelInfo
    /\ events = <<>>

----------------------------------------------------------------------------
\* C7: With with no arguments returns the receiver itself, and creates no
\* logger: the heap is what it was.
C7_WithEmptyIsIdentity ==
    [][(last'.op = "With" /\ Len(last'.arg) = 0) =>
          /\ last'.ret = last'.recv
          /\ loggers' = loggers
          /\ cells' = cells
          /\ arrays' = arrays]_vars

\* With() was called on a logger that stores pairs, and returned it.
C7_Witness ==
    /\ last.op = "With"
    /\ last.arg = <<>>
    /\ last.ret = last.recv
    /\ Len(ArgsOf(last.recv)) > 0

----------------------------------------------------------------------------
\* The pairs of an even-length argument list whose key is a string, in order:
\* the elements at the positions whose pair starts with a string.
KeptPositions(kv) ==
    {i \in 1..Len(kv) : IsString(kv[IF i % 2 = 1 THEN i ELSE i - 1])}

KeptPairs(kv) ==
    LET P == KeptPositions(kv)
        Nth(n) == kv[CHOOSE i \in P : Cardinality({j \in P : j <= i}) = n]
    IN Tabulate(Nth, Cardinality(P))

\* C8 as claimed: after a With call with an odd number of arguments the
\* sequence the result stores has even length and ends with "(MISSING)".
C8_OddEndsWithSentinel ==
    (last.op = "With" /\ Len(last.arg) % 2 = 1) =>
        LET stored == ArgsOf(last.ret)
        IN /\ Len(stored) % 2 = 0
           /\ Len(stored) > 0
           /\ stored[Len(stored)] = Missing

\* C8 as amended: after a With call with an odd number of arguments the
\* sequence the result stores has even length; when the last argument, the
\* key left without a value, is a string, the sequence ends with that key and
\* "(MISSING)"; when it is no string, the key and the sentinel are both
\* dropped, and the sequence is what the arguments before it give.
C8_OddPaddedWhenKeyIsString ==
    (last.op = "With" /\ Len(last.arg) % 2 = 1) =>
        LET stored == ArgsOf(last.ret)
            n == Len(last.arg)
        IN /\ Len(stored) % 2 = 0
           /\ IsString(last.arg[n]) =>
                 /\ Len(stored) >= 2
                 /\ stored[Len(stored)] = Missing
                 /\ stored[Len(stored) - 1] = last.arg[n]
           /\ ~IsString(last.arg[n]) =>
                 stored = ArgsOf(last.recv) \o KeptPairs(SubSeq(last.arg, 1, n - 1))

\* With with three arguments on a logger that stores pairs: the first key is
\* no string, the last is, and the result ends with that key and the sentinel.
C8_Witness ==
    /\ last.op = "With"
    /\ Len(last.arg) = 3
    /\ ~IsString(last.arg[1])
    /\ IsString(last.arg[3])
    /\ Len(ArgsOf(last.recv)) > 0
    /\ ArgsOf(last.ret)[Len(ArgsOf(last.ret))] = Missing

----------------------------------------------------------------------------
\* The argument list as With pairs it up: the sentinel is the value of a last
\* key without one.
PairedUp(kv) == IF Len(kv) % 2 = 1 THEN kv \o <<Missing>> ELSE kv

\* C9: after a With call the result stores the receiver's pairs followed by
\* the argument pairs whose key is a string, in their order; a pair whose key
\* is no string is absent, key and value.
C9_NonStringKeysDropped ==
    (last.op = "With" /\ Len(last.arg) > 0) =>
        /\ ArgsOf(last.ret) = ArgsOf(last.recv) \o KeptPairs(PairedUp(last.arg))
        /\ Len(ArgsOf(last.ret)) =
               Len(ArgsOf(last.recv)) + Cardinality(KeptPositions(PairedUp(last.arg)))

\* With on a logger that stores pairs, with a pair whose key is no string
\* before a pair whose key is a string: the result is two elements longer.
C9_Witness ==
    /\ last.op = "With"
    /\ Len(last.arg) = 3
    /\ ~IsString(last.arg[1])
    /\ IsString(last.arg[2])
    /\ IsString(last.arg[3])
    /\ Len(ArgsOf(last.recv)) = 2
    /\ ArgsOf(last.ret) = ArgsOf(last.recv) \o <<last.arg[3], Missing>>

----------------------------------------------------------------------------
Derivations == {"With", "Context", "Metric", "Clone"}
SkipAdjustments == {"CSIncrease", "CSDecrease"}

----------------------------------------------------------------------------
\* The constructed logger that l was derived from, l itself when NewLogger
\* returned it.
RECURSIVE RootOf(_)
RootOf(l) == IF derived[l].from = 0 THEN l ELSE RootOf(derived[l].from)

\* C13: a logger constructed without a sink, and every logger derived from it
\* by With, Context, Metric or Clone, has no sink; whatever its threshold has
\* been set to, enabled is false for it at every level, and a Debug, Info or
\* Error call on it makes no attempt to invoke a sink.
C13_NoSinkNeverEmits ==
    /\ \A l \in Ptrs :
          loggers[RootOf(l)].emitFunc = NilEmit =>
              /\ loggers[l].emitFunc = NilEmit
              /\ \A level \in LevelNone..LevelDebug : ~enabled(Heap, l, level)
    /\ (last.op \in LogMethods /\ loggers[RootOf(last.recv)].emitFunc = NilEmit)
          => Emits = <<>>

\* Error was called on a logger two derivations away from a logger that was
\* constructed without a sink, with the threshold at Debug and a metric, which
\* was recorded.
C13_Witness ==
    /\ last.op = "Error"
    /\ derived[last.recv].from # 0
    /\ derived[derived[last.recv].from].from # 0
    /\ loggers[RootOf(last.recv)].emitFunc = NilEmit
    /\ LevelOf(last.recv) = LevelDebug
    /\ Len(Records) = 1

----------------------------------------------------------------------------
\* The metrics a call recorded, in order.
RecordedMetrics(ev) ==
    LET rec == SelectSeq(ev, LAMBDA e : e.kind = "record")
    IN Tabulate(LAMBDA i : rec[i].metric, Len(rec))

\* What the call (Info or Error, with its arguments) would record when made
\* on logger l of heap h.
WouldRecord(h, call, l) ==
    RecordedMetrics(IF call.op = "Info"
                    THEN Info(h, l, call.arg[1], call.arg[3]).events
                    ELSE Error(h, l, call.arg[1], call.arg[2], call.arg[3]).events)

PropagatingDerivations == {"With", "Context", "Clone"}

\* C14: no call changes the metric of a logger that exists; the logger that
\* With, Context or Clone returns has the receiver's metric, and an Info or
\* Error call on it records what the same call on the receiver would record;
\* the logger that Metric(m) returns has m, and an Info or Error call records
\* the metric the logger it is called on has, or nothing when it has none: on
\* the receiver of Metric(m), the metric it had before that call.
C14_MetricPropagated ==
    [][/\ \A l \in Ptrs : loggers'[l].metric = loggers[l].metric
       /\ (last'.op \in PropagatingDerivations /\ Len(loggers') > Len(loggers))
             => loggers'[last'.ret].metric = loggers[last'.recv].metric
       /\ last'.op = "Metric" => loggers'[last'.ret].metric = last'.arg
       /\ last'.op \in {"Info", "Error"} =>
             /\ RecordedMetrics(events') =
                   IF loggers[last'.recv].metric = NilMetric THEN <<>>
                   ELSE <<loggers[last'.recv].metric>>
             /\ derived[last'.recv].how \in PropagatingDerivations
                   => RecordedMetrics(events') =
                         WouldRecord(Heap', last', derived[last'.recv].from)]_vars

\* Info was called on the receiver of a Metric call that returned a logger
\* with another metric, and recorded the receiver's own metric; the receiver
\* itself was returned by an earlier Metric call.
C14_Witness ==
    \E d \in Ptrs :
        /\ derived[d].how = "Metric"
        /\ last.op = "Info"
        /\ last.recv = derived[d].from
        /\ loggers[last.recv].metric # NilMetric
        /\ loggers[d].metric # loggers[last.recv].metric
        /\ RecordedMetrics(events) = <<loggers[last.recv].metric>>

----------------------------------------------------------------------------
\* C15: every sink invocation of a Debug, Info or Error call receives the
\* level of the method, the message of the call, the error of the call for
\* Error and nil for Debug and Info, and three sequences: FromContext, the
\* pairs of the logger's context; FromLogger, the pairs the logger stores, in
\* order; FromMethod, the arguments of the call as they were passed.
C15_SinkArguments ==
    last.op \in LogMethods =>
        \A i \in 1..Len(Emits) :
            /\ Emits[i].level = MethodLevel(last.op)
            /\ Emits[i].msg = last.arg[1]
            /\ Emits[i].err = (IF last.op = "Error" THEN last.arg[2] ELSE NilErr)
            /\ Emits[i].values.FromContext = KeyValuesFromContext(loggers[last.recv].ctx)
            /\ Emits[i].values.FromLogger = ArgsOf(last.recv)
            /\ Emits[i].values.FromMethod = last.arg[3]

\* Error with an error and one argument that is no string, on a logger that
\* stores pairs and whose context carries pairs: the sink was invoked with
\* three non-empty sequences, the last of odd length.
C15_Witness ==
    /\ last.op = "Error"
    /\ last.arg[2] # NilErr
    /\ Len(last.arg[3]) = 1
    /\ ~IsString(last.arg[3][1])
    /\ Len(ArgsOf(last.recv)) > 0
    /\ loggers[last.recv].ctx # Background
    /\ Len(Emits) = 1
    /\ Emits[1].values.FromMethod = last.arg[3]

----------------------------------------------------------------------------
DefinedLevels == {LevelNone, LevelError, LevelInfo, LevelDebug}

\* C16 as claimed: whatever level r is requested, values below None included,
\* the level SetLevel(r) stores is a defined level and is at most r.
C16_StoredAtOrBelowRequested ==
    last.op = "SetLevel" =>
        /\ LevelOf(last.recv) \in DefinedLevels
        /\ LevelOf(last.recv) <= last.arg

\* C16 as amended: the level SetLevel(r) stores is a defined level; it is at
\* most r when r is at least None, and it is None, which is above r, when r is
\* below None.
C16_StoredAtOrBelowFromNone ==
    last.op = "SetLevel" =>
        /\ LevelOf(last.recv) \in DefinedLevels
        /\ last.arg >= LevelNone => LevelOf(last.recv) <= last.arg
        /\ last.arg < LevelNone => LevelOf(last.recv) = LevelNone

\* SetLevel was called with the value just below None, and Level() is None.
C16_Witness ==
    /\ last.op = "SetLevel"
    /\ last.arg = LevelNone - 1
    /\ LevelOf(last.recv) = LevelNone

----------------------------------------------------------------------------
\* C17: the threshold of every logger is None, Error, Info or Debug, whatever
\* calls of NewLogger, SetLevel, With, Context, Metric and Clone were made;
\* the logger NewLogger has just returned has threshold Info.
C17_ThresholdIsDefinedLevel ==
    /\ \A l \in Ptrs : LevelOf(l) \in DefinedLevels
    /\ last.op = "NewLogger" => LevelOf(last.ret) = LevelInfo

\* NewLogger returned a logger at Info while an older logger, set with a value
\* above Debug, is at Debug, and a logger derived from that one at None.
C17_Witness ==
    /\ last.op = "NewLogger"
    /\ Len(loggers) = 3
    /\ LevelOf(last.ret) = LevelInfo
    /\ LevelOf(1) = LevelDebug
    /\ derived[2].from = 1
    /\ LevelOf(2) = LevelNone

----------------------------------------------------------------------------
IsPrefix(s, t) == Len(s) <= Len(t) /\ SubSeq(t, 1, Len(s)) = s

\* C18: no call changes the key/value sequence a logger stores; the logger a
\* With call returns stores the receiver's sequence followed by the pairs the
\* call accepted, a logger Context, Metric or Clone returns stores the
\* receiver's sequence, and so every logger derived from L goes on storing
\* L's sequence as a prefix of its own, whatever is derived from L afterwards.
C18_StoredSequenceImmutable ==
    [][/\ \A l \in Ptrs : SliceElems(Heap', loggers'[l].args) = ArgsOf(l)
       /\ Len(loggers') > Len(loggers) =>
             SliceElems(Heap', loggers'[last'.ret].args) =
                 IF last'.op = "With"
                 THEN ArgsOf(last'.recv) \o KeptPairs(PairedUp(last'.arg))
                 ELSE ArgsOf(last'.recv)
       /\ \A d \in 1..Len(loggers') :
             derived'[d].from # 0 =>
                 IsPrefix(SliceElems(Heap', loggers'[derived'[d].from].args),
                          SliceElems(Heap', loggers'[d].args))]_vars

\* Two loggers derived by different With calls from one logger that stores
\* three pairs (its backing array has room for four): each stores the three
\* pairs and its own.
C18_Witness ==
    /\ Len(loggers) = 4
    /\ last.op = "With"
    /\ last.ret = 4
    /\ derived[3] = [how |-> "With", from |-> 2]
    /\ derived[4] = [how |-> "With", from |-> 2]
    /\ Len(ArgsOf(2)) = 6
    /\ SliceCap(Heap, loggers[2].args) = 8
    /\ ArgsOf(3) = ArgsOf(2) \o <<Str("k"), <<"int", "7">>>>
    /\ ArgsOf(4) = ArgsOf(2) \o <<Str("k"), Str("k")>>

----------------------------------------------------------------------------
\* C20: a Debug, Info or Error call, whether it reaches the sink or not,
\* leaves every logger as it was: threshold, stored key/value sequence,
\* caller-skip counter, metric, context and sink.
C20_LogCallsReadOnly ==
    [][last'.op \in LogMethods =>
          /\ Len(loggers') = Len(loggers)
          /\ \A l \in Ptrs :
                /\ Level(Heap', l) = LevelOf(l)
                /\ SliceElems(Heap', loggers'[l].args) = ArgsOf(l)
                /\ loggers'[l].callerSkip = loggers[l].callerSkip
                /\ loggers'[l].metric = loggers[l].metric
                /\ loggers'[l].ctx = loggers[l].ctx
                /\ loggers'[l].emitFunc = loggers[l].emitFunc]_vars

\* Info reached the sink, on a logger that stores pairs and has its
\* caller-skip counter at 1, with the threshold at Debug.
C20_Witness ==
    /\ last.op = "Info"
    /\ Len(Emits) = 1
    /\ Len(ArgsOf(last.recv)) > 0
    /\ loggers[last.recv].callerSkip = 1
    /\ LevelOf(last.recv) = LevelDebug

----------------------------------------------------------------------------
\* The sink invocations a goroutine's call has made.
EmitsOf(t) == SelectSeq(threads[t].trace, LAMBDA e : e.kind = "emit")

\* The caller-skip of logger l by count: what it started with, plus the
\* CSIncrease calls and minus the CSDecrease calls completed on it.
SkipByCount(l) == counts[l].initial + counts[l].incs - counts[l].decs

Adjusting(l) ==
    \E t \in Threads :
        /\ threads[t].op \in SkipAdjustments
        /\ threads[t].recv = l
        /\ threads[t].pc # "done"

\* C11: whenever the CSIncrease and CSDecrease calls made on a logger by the
\* goroutines, in whatever interleaving, have completed, its caller-skip
\* counter is its initial value plus the increases minus the decreases; and a
\* sink invocation of a log call on that logger, with no adjustment completed
\* on it since the call began, received that value.
C11_NoLostUpdate ==
    /\ \A l \in Ptrs : ~Adjusting(l) => loggers[l].callerSkip = SkipByCount(l)
    /\ \A t \in Threads :
          (/\ threads[t].op \in LogMethods
           /\ threads[t].pc = "done"
           /\ counts[threads[t].recv].incs + counts[threads[t].recv].decs = threads[t].seen)
              => \A i \in 1..Len(EmitsOf(t)) :
                    EmitsOf(t)[i].callerSkip = SkipByCount(threads[t].recv)

\* Two goroutines have each completed a CSIncrease on the constructed logger;
\* one then logged through it with Info, and the sink received 2.
C11_Witness ==
    \E t, u \in Threads :
        /\ t # u
        /\ threads[u].op = "CSIncrease" /\ threads[u].recv = 1 /\ threads[u].pc = "done"
        /\ threads[t].op = "Info" /\ threads[t].recv = 1 /\ threads[t].pc = "done"
        /\ threads[t].calls = 2
        /\ counts[1] = [initial |-> 0, incs |-> 2, decs |-> 0]
        /\ Len(EmitsOf(t)) = 1
        /\ EmitsOf(t)[1].callerSkip = 2

----------------------------------------------------------------------------
NoAccess == [loc |-> <<"none", 0>>, write |-> FALSE, atomic |-> TRUE]

\* The access to the level cell or to a callerSkip field that the goroutine is
\* about to make: atomic.AddInt32 (lines 82, 86), atomic.StoreInt32 (line 155)
\* and atomic.LoadInt32 (line 140, reached when l.emitFunc is not nil) are
\* atomic; int(l.callerSkip) in emit (line 136), *l.level in Clone (line 205)
\* and l.callerSkip in With, Context, Metric and Clone (lines 173, 189, 198,
\* 206) are plain reads.
Access(th) ==
    CASE th.pc = "adjust" ->
            [loc |-> <<"callerSkip", th.recv>>, write |-> TRUE, atomic |-> TRUE]
      [] th.pc = "store" ->
            [loc |-> <<"level", loggers[th.recv].level>>, write |-> TRUE, atomic |-> TRUE]
      [] th.pc = "gate" /\ loggers[th.recv].emitFunc # NilEmit ->
            [loc |-> <<"level", loggers[th.recv].level>>, write |-> FALSE, atomic |-> TRUE]
      [] th.pc = "skip" ->
            [loc |-> <<"callerSkip", th.recv>>, write |-> FALSE, atomic |-> FALSE]
      [] th.pc = "deref" ->
            [loc |-> <<"level", loggers[th.recv].level>>, write |-> FALSE, atomic |-> FALSE]
      [] th.pc = "copy" ->
            [loc |-> <<"callerSkip", th.recv>>, write |-> FALSE, atomic |-> FALSE]
      [] OTHER -> NoAccess

\* Two goroutines are each about to access the same location, nothing orders
\* the two accesses, one of them is a write and one of them is plain.
Race(t, u) ==
    LET a == Access(threads[t])
        b == Access(threads[u])
    IN /\ t # u
       /\ a.loc = b.loc
       /\ a.loc[1] # "none"
       /\ a.write \/ b.write
       /\ ~a.atomic \/ ~b.atomic

\* C12: no plain access to the level cell or to a caller-skip counter is
\* concurrent with a write to it, in any method: Level, SetLevel, enabled, the
\* logging methods and emit, CSIncrease, CSDecrease, With, Context, Metric
\* and Clone.
C12_NoPlainAccessConcurrentWithWrite ==
    \A t, u \in Threads : ~Race(t, u)

----------------------------------------------------------------------------
\* C19: in an Info or Error call on a logger with a metric, the metric has
\* been recorded when the enabled test is about to be made and from then on:
\* the record is the first thing the call does to its collaborators, and the
\* sink invocation, if there is one, comes after it.
C19_MetricBeforeGateAndSink ==
    \A t \in Threads :
        (/\ threads[t].op \in {"Info", "Error"}
         /\ loggers[threads[t].recv].metric # NilMetric
         /\ threads[t].pc # "record")
            => LET tr == threads[t].trace
               IN /\ Len(tr) >= 1
                  /\ tr[1].kind = "record"
                  /\ \A i \in 1..Len(tr) : tr[i].kind = "emit" => i > 1

\* An Error call on a logger with a metric has recorded the metric and then
\* invoked the sink, while the other goroutine is in a call of its own.
C19_Witness ==
    \E t, u \in Threads :
        /\ threads[t].op = "Error"
        /\ threads[t].pc = "done"
        /\ loggers[threads[t].recv].metric # NilMetric
        /\ Len(threads[t].trace) = 2
        /\ threads[t].trace[1].kind = "record"
        /\ threads[t].trace[2].kind = "emit"
        /\ threads[u].pc # "done"

====
